---- MODULE Spec2Model ----
(***************************************************************************)
(* Anti-delete engine of the bot (src/antidelete.js) as wired by the bot   *)
(* bootstrap (src/unnamed/part_001): the triple-indexed MessageCache, the  *)
(* content resolver, the revoke handler and the two intake handlers.       *)
(*                                                                         *)
(* JavaScript runs one synchronous segment at a time; a task gives up the  *)
(* processor only at an await.  Every action below is one such segment.    *)
(* A JS Map is an insertion-ordered list of entries; a cached record is an *)
(* object, told apart from equal-looking records by its identity (oid).    *)
(* Absent / undefined / null string values are the empty string, which is  *)
(* what the code's `x || ''` coercions turn them into.                     *)
(***************************************************************************)
EXTENDS Integers, Sequences, FiniteSets, TLC

VARIABLES
  cache,        \* the MessageCache object: strictMap, looseMap, idMap, _interval
  now,          \* Date.now()
  nextOid,      \* allocator of object identities for `rec` objects
  enabled,      \* attachAntiDelete: let enabled
  forwardToJid, \* attachAntiDelete: let forwardToJid ("" is null)
  listening,    \* onUpsert / onUpdate are attached to sock.ev
  tasks,        \* the in-flight intake calls (async onUpsert / onUpdate)
  delivered,    \* number of batches the host has delivered so far
  wiring,       \* which send primitive was injected as sendWithChannel
  notifyText,   \* options.notifyText: "none", or a custom formatter
  last,         \* history: the last direct call on the cache and its result
  inserted      \* history: inserted[oid] is the key add() was called with

vars == <<cache, now, nextOid, enabled, forwardToJid, listening, tasks,
          delivered, wiring, notifyText, last, inserted>>

----------------------------------------------------------------------------
(* Bounds of the model *)

\* The clock Date.now() runs over 0..MaxNow.
MaxNow == 2
\* options.ttlMs, in clock ticks (DEFAULT_TTL_MS is 24h of milliseconds).
TtlMs == 1
\* MAX_CACHE, scaled down from the program's 5000.  The scale keeps what the
\* capacity arithmetic depends on: Math.ceil(MAX_CACHE * 0.3) is more than 6,
\* twice the number of entries one add() can create.
MAX_CACHE == 21
\* Number of add() calls explored in the direct-call specifications.
MaxCalls == 3

----------------------------------------------------------------------------
(* JS Map: insertion-ordered entries [k, v]; set() on a present key keeps  *)
(* the entry's position, delete() closes the gap.                          *)

EmptyMap == << >>

MapHas(m, k) == \E i \in 1..Len(m) : m[i].k = k

MapIndex(m, k) == CHOOSE i \in 1..Len(m) : m[i].k = k

\* Map.prototype.get: the value, or undefined (NoRec)
NoRec == [oid |-> 0, at |-> 0, container |-> [none |-> TRUE], authorJid |-> ""]

MapGet(m, k) == IF MapHas(m, k) THEN m[MapIndex(m, k)].v ELSE NoRec

\* A set() that adds an entry without looking for the key
MapSet_Append(m, k, v) == Append(m, [k |-> k, v |-> v])

MapSet(m, k, v) ==
  IF MapHas(m, k)
  THEN [m EXCEPT ![MapIndex(m, k)] = [k |-> k, v |-> v]]
  ELSE Append(m, [k |-> k, v |-> v])

MapDelete(m, k) == SelectSeq(m, LAMBDA e : e.k # k)

\* for (const [k, rv] of map.entries()) if (rv === v) map.delete(k)
MapDeleteValue(m, v) == SelectSeq(m, LAMBDA e : e.v.oid # v.oid)

MapSize(m) == Len(m)

\* if (!rec)
IsRec(r) == r.oid # 0

----------------------------------------------------------------------------
(* makeKeys *)

makeKeys(key) ==
  [strict |-> key.remoteJid \o "|" \o key.id \o "|" \o key.participant,
   loose  |-> key.remoteJid \o "|" \o key.id,
   idOnly |-> key.id]

----------------------------------------------------------------------------
(* MessageCache *)

NewCache == [strictMap |-> EmptyMap, looseMap |-> EmptyMap, idMap |-> EmptyMap,
             interval |-> TRUE]

\* Math.ceil(MAX_CACHE * 0.3)
EvictCount == (MAX_CACHE * 3 + 9) \div 10

HighWater == MAX_CACHE * 3

TotalSize(c) == MapSize(c.strictMap) + MapSize(c.looseMap) + MapSize(c.idMap)

\* arr.sort((a, b) => a.t - b.t): a stable sort by insertion time.  The
\* place of arr[j] in the result is one more than the number of elements the
\* comparator puts before it, equal times keeping their order in arr.
SortRank(arr, j) ==
  1 + Cardinality({ k \in 1..Len(arr) :
                      \/ arr[k].v.at < arr[j].v.at
                      \/ (arr[k].v.at = arr[j].v.at /\ k < j) })

SortByAt(arr) ==
  [i \in 1..Len(arr) |-> arr[CHOOSE j \in 1..Len(arr) : SortRank(arr, j) = i]]

\* The loop of evictOldest over arr[i], i < Math.min(count, arr.length)
RECURSIVE EvictLoop(_, _, _, _)
EvictLoop(c, arr, i, n) ==
  IF i > n THEN c
  ELSE EvictLoop([c EXCEPT !.strictMap = MapDeleteValue(@, arr[i].v),
                           !.looseMap  = MapDeleteValue(@, arr[i].v),
                           !.idMap     = MapDeleteValue(@, arr[i].v)],
                 arr, i + 1, n)

Min(a, b) == IF a < b THEN a ELSE b

\* evictOldest that drops a single record whatever count it is given
evictOldest_One(c, count) ==
  LET arr == SortByAt(c.strictMap)
  IN  EvictLoop(c, arr, 1, Min(1, Len(arr)))

\* evictOldest that walks the sorted array from its young end
evictOldest_Newest(c, count) ==
  LET arr == SortByAt(c.strictMap)
      rev == [i \in 1..Len(arr) |-> arr[Len(arr) + 1 - i]]
  IN  EvictLoop(c, rev, 1, Min(count, Len(arr)))

evictOldest(c, count) ==
  LET arr == SortByAt(c.strictMap)
  IN  EvictLoop(c, arr, 1, Min(count, Len(arr)))

\* add(key, container, authorJid); the new record's identity is oid
\* An add() that stamps its record with the time the cache was created
add_StaleAt(c, key, container, authorJid, t, oid) ==
  LET ks   == makeKeys(key)
      size == TotalSize(c)
      c1   == IF size > HighWater THEN evictOldest(c, EvictCount) ELSE c
      rec  == [oid |-> oid, at |-> 0, container |-> container, authorJid |-> authorJid]
  IN  [c1 EXCEPT !.strictMap = MapSet(@, ks.strict, rec),
                 !.looseMap  = MapSet(@, ks.loose, rec),
                 !.idMap     = IF ks.idOnly # "" THEN MapSet(@, ks.idOnly, rec) ELSE @]

\* An add() that leaves looseMap out
add_NoLoose(c, key, container, authorJid, t, oid) ==
  LET ks   == makeKeys(key)
      size == TotalSize(c)
      c1   == IF size > HighWater THEN evictOldest(c, EvictCount) ELSE c
      rec  == [oid |-> oid, at |-> t, container |-> container, authorJid |-> authorJid]
  IN  [c1 EXCEPT !.strictMap = MapSet(@, ks.strict, rec),
                 !.idMap     = IF ks.idOnly # "" THEN MapSet(@, ks.idOnly, rec) ELSE @]

add(c, key, container, authorJid, t, oid) ==
  LET ks   == makeKeys(key)
      size == TotalSize(c)
      c1   == IF size > HighWater THEN evictOldest(c, EvictCount) ELSE c
      rec  == [oid |-> oid, at |-> t, container |-> container, authorJid |-> authorJid]
  IN  [c1 EXCEPT !.strictMap = MapSet(@, ks.strict, rec),
                 !.looseMap  = MapSet(@, ks.loose, rec),
                 !.idMap     = IF ks.idOnly # "" THEN MapSet(@, ks.idOnly, rec) ELSE @]

\* A probe without the loose tier
Probe_NoLoose(c, key) ==
  LET ks == makeKeys(key)
      r1 == MapGet(c.strictMap, ks.strict)
      r3 == IF ~IsRec(r1) /\ ks.idOnly # "" THEN MapGet(c.idMap, ks.idOnly) ELSE r1
  IN  r3

\* The strict -> loose -> id-only probe of getByRevokedKey
Probe(c, key) ==
  LET ks == makeKeys(key)
      r1 == MapGet(c.strictMap, ks.strict)
      r2 == IF ~IsRec(r1) THEN MapGet(c.looseMap, ks.loose) ELSE r1
      r3 == IF ~IsRec(r2) /\ ks.idOnly # "" THEN MapGet(c.idMap, ks.idOnly) ELSE r2
  IN  r3

Expired(rec, t) == t - rec.at > TtlMs

\* A getByRevokedKey that takes the record it returns out of the indexes
getByRevokedKey_Consumes(c, key, t) ==
  LET ks  == makeKeys(key)
      rec == Probe(c, key)
  IN  IF ~IsRec(rec) THEN [ret |-> NoRec, cache |-> c]
      ELSE [ret |-> IF Expired(rec, t) THEN NoRec ELSE rec,
            cache |-> [c EXCEPT !.strictMap = MapDelete(@, ks.strict),
                                !.looseMap  = MapDelete(@, ks.loose),
                                !.idMap     = IF ks.idOnly # ""
                                              THEN MapDelete(@, ks.idOnly) ELSE @]]

\* getByRevokedKey(key): the returned record (NoRec is null) and the cache after
\* A lookup whose purge deletes the strict entry alone
getByRevokedKey_PurgeStrict(c, key, t) ==
  LET ks  == makeKeys(key)
      rec == Probe(c, key)
  IN  IF ~IsRec(rec) THEN [ret |-> NoRec, cache |-> c]
      ELSE IF Expired(rec, t)
      THEN [ret |-> NoRec, cache |-> [c EXCEPT !.strictMap = MapDelete(@, ks.strict)]]
      ELSE [ret |-> rec, cache |-> c]

\* A lookup that refreshes the insertion time of the record it returns
getByRevokedKey_Touch(c, key, t) ==
  LET rec == Probe(c, key)
      touch(m) == [i \in 1..Len(m) |->
                     IF m[i].v.oid = rec.oid THEN [m[i] EXCEPT !.v.at = t] ELSE m[i]]
  IN  IF ~IsRec(rec) \/ Expired(rec, t) THEN [ret |-> NoRec, cache |-> c]
      ELSE [ret |-> rec, cache |-> [c EXCEPT !.strictMap = touch(@),
                                             !.looseMap  = touch(@),
                                             !.idMap     = touch(@)]]

getByRevokedKey(c, key, t) ==
  LET ks  == makeKeys(key)
      rec == Probe(c, key)
  IN  IF ~IsRec(rec) THEN [ret |-> NoRec, cache |-> c]
      ELSE IF Expired(rec, t)
      THEN [ret |-> NoRec,
            cache |-> [c EXCEPT !.strictMap = MapDelete(@, ks.strict),
                                !.looseMap  = MapDelete(@, ks.loose),
                                !.idMap     = IF ks.idOnly # ""
                                              THEN MapDelete(@, ks.idOnly) ELSE @]]
      ELSE [ret |-> rec, cache |-> c]

\* cleanup(): expire(strictMap); expire(looseMap); expire(idMap)
expire(m, t) == SelectSeq(m, LAMBDA e : ~Expired(e.v, t))

\* A sweep that visits strictMap alone
cleanup_StrictOnly(c, t) == [c EXCEPT !.strictMap = expire(c.strictMap, t)]

cleanup(c, t) ==
  [c EXCEPT !.strictMap = expire(@, t),
            !.looseMap  = expire(@, t),
            !.idMap     = expire(@, t)]

clear(c) == [c EXCEPT !.strictMap = EmptyMap, !.looseMap = EmptyMap, !.idMap = EmptyMap]

\* MessageCache.stop(): clearInterval(this._interval)
cacheStop(c) == [c EXCEPT !.interval = FALSE]

----------------------------------------------------------------------------
(* Message keys and envelopes the host can deliver *)

Key(jid, id, participant) == [remoteJid |-> jid, id |-> id, participant |-> participant]

\* The key of a message the local account has sent: fromMe is true
OwnKey(jid, id, participant) ==
  [remoteJid |-> jid, id |-> id, participant |-> participant, fromMe |-> TRUE]

\* Identities used for direct cache calls: one message id seen in two chats
\* and under three participant spellings, and a key without an id.
CacheKeys ==
  { Key("c1@g", "m1", "p1@s"), Key("c1@g", "m1", "p2@s"), Key("c1@g", "m1", ""),
    Key("c2@g", "m1", "p1@s"), Key("c1@g", "", "p1@s") }

\* A value that is undefined or null
Null == [none |-> TRUE]

IsNull(x) == "none" \in DOMAIN x

\* obj?.f for an object-valued field, obj?.f || '' for a string-valued one
Obj(x, f) == IF f \in DOMAIN x THEN x[f] ELSE Null
Str(x, f) == IF f \in DOMAIN x THEN x[f] ELSE ""

TextMsg(t) == [conversation |-> t]
ExtTextMsg(t) == [extendedTextMessage |-> [text |-> t]]
ImageMsg(caption, bytes) == [imageMessage |-> [caption |-> caption, media |-> bytes]]
EphemeralMsg(inner) == [ephemeralMessage |-> [message |-> inner]]
\* protocolMessage of type 0 (REVOKE) naming the deleted message's key
RevokeMsg(key) == [protocolMessage |-> [type |-> 0, key |-> key]]

\* An element of a messages.upsert batch, and of a messages.update batch
Container(key, message) == [key |-> key, message |-> message]
Update(key, message) == [key |-> key, update |-> [message |-> message]]
\* A null element of a batch
NullElement == [null |-> TRUE]

\* m.key?.participant || m.key?.remoteJid
AuthorOf(key) == IF key.participant # "" THEN key.participant ELSE key.remoteJid

----------------------------------------------------------------------------
(* Content resolver *)

RECURSIVE resolveContentNode(_)
resolveContentNode(message) ==
  IF IsNull(message) THEN Null
  ELSE IF "ephemeralMessage" \in DOMAIN message
       THEN resolveContentNode(Obj(message.ephemeralMessage, "message"))
  ELSE IF "viewOnceMessage" \in DOMAIN message
       THEN resolveContentNode(Obj(message.viewOnceMessage, "message"))
  ELSE IF "viewOnceMessageV2" \in DOMAIN message
       THEN resolveContentNode(Obj(message.viewOnceMessageV2, "message"))
  ELSE IF "viewOnceMessageV2Extension" \in DOMAIN message
       THEN resolveContentNode(Obj(message.viewOnceMessageV2Extension, "message"))
  ELSE message

\* extractText that reads the envelope's own fields without unwrapping it
extractText_NoUnwrap(containerMessage) ==
  LET node == containerMessage
  IN  IF IsNull(node) THEN ""
      ELSE IF Str(node, "conversation") # "" THEN node.conversation
      ELSE IF Str(Obj(node, "extendedTextMessage"), "text") # ""
           THEN node.extendedTextMessage.text
      ELSE ""

extractText(containerMessage) ==
  LET node == resolveContentNode(containerMessage)
  IN  IF IsNull(node) THEN ""
      ELSE IF Str(node, "conversation") # "" THEN node.conversation
      ELSE IF Str(Obj(node, "extendedTextMessage"), "text") # ""
           THEN node.extendedTextMessage.text
      ELSE IF Str(Obj(node, "imageMessage"), "caption") # ""
           THEN node.imageMessage.caption
      ELSE IF Str(Obj(node, "videoMessage"), "caption") # ""
           THEN node.videoMessage.caption
      ELSE ""

\* "" is null: not a media message
detectMediaKind(containerMessage) ==
  LET node == resolveContentNode(containerMessage)
  IN  IF IsNull(node) THEN ""
      ELSE IF "imageMessage" \in DOMAIN node THEN "image"
      ELSE IF "videoMessage" \in DOMAIN node THEN "video"
      ELSE IF "stickerMessage" \in DOMAIN node THEN "sticker"
      ELSE IF "audioMessage" \in DOMAIN node THEN "audio"
      ELSE IF "documentMessage" \in DOMAIN node THEN "document"
      ELSE IF "liveLocationMessage" \in DOMAIN node \/ "locationMessage" \in DOMAIN node
           THEN "location"
      ELSE ""

----------------------------------------------------------------------------
(* Notices and outgoing content *)

\* (deleterJid || '').split('@')[0], over the JIDs of the model
UserPart(jid) ==
  CASE jid = "c1@g"  -> "c1"
    [] jid = "c2@g"  -> "c2"
    [] jid = "p1@s"  -> "p1"
    [] jid = "p2@s"  -> "p2"
    [] jid = "own@s" -> "own"
    [] OTHER         -> jid

\* new Date().toLocaleString()
LocaleTime(t) == "t" \o ToString(t)

\* buildNoticeText: the text, or thrown when the custom builder throws
buildNoticeText(deleterJid, chatId, customBuilder, t) ==
  IF customBuilder = "throws" THEN [thrown |-> TRUE, text |-> ""]
  ELSE [thrown |-> FALSE,
        text |-> "Anti-Delete (Global)\nChat: " \o chatId
                 \o "\nDeleted by: " \o UserPart(deleterJid)
                 \o "\nTime: " \o LocaleTime(t)]

\* buildOutgoingContent that forgets the caption of an image or a video
buildOutgoingContent_NoCaption(kind, buffer, caption) ==
  CASE kind = "image" -> [image |-> buffer, caption |-> ""]
    [] kind = "video" -> [video |-> buffer, caption |-> ""]
    [] OTHER          -> [text |-> "(unsupported message type)"]

buildOutgoingContent(kind, buffer, caption) ==
  CASE kind = "image"    -> [image |-> buffer, caption |-> caption]
    [] kind = "video"    -> [video |-> buffer, caption |-> caption]
    [] kind = "sticker"  -> [sticker |-> buffer]
    [] kind = "audio"    -> [audio |-> buffer]
    [] kind = "document" -> [document |-> buffer]
    [] kind = "location" -> [text |-> IF caption # "" THEN caption ELSE "(location message)"]
    [] OTHER             -> [text |-> IF caption # "" THEN caption
                                      ELSE "(unsupported message type)"]

\* downloadMediaMessage(rec.container, 'buffer', ...) when it succeeds: the
\* bytes of the media node
MediaBytes(container) ==
  LET node == resolveContentNode(Obj(container, "message"))
  IN  IF "imageMessage" \in DOMAIN node THEN Str(node.imageMessage, "media") ELSE "bytes"

NoTasks == << >>

NoCall == [op |-> "none", key |-> Key("", "", ""), probed |-> 0, expired |-> FALSE,
           ret |-> 0, before |-> 0, at |-> 0]

----------------------------------------------------------------------------
(* SpecCache: the MessageCache object driven directly, method by method *)

InitCommon ==
  /\ now = 0
  /\ enabled = TRUE
  /\ forwardToJid = ""
  /\ listening = FALSE
  /\ tasks = NoTasks
  /\ delivered = 0
  /\ wiring = "bot"
  /\ notifyText = "none"
  /\ last = NoCall

InitCache ==
  /\ cache = NewCache
  /\ nextOid = 1
  /\ inserted = << >>
  /\ InitCommon

ConfigUnchanged == UNCHANGED <<enabled, forwardToJid, listening, tasks, delivered,
                               wiring, notifyText>>

\* Date.now() moves on
Tick ==
  /\ now < MaxNow
  /\ now' = now + 1
  /\ UNCHANGED <<cache, nextOid, enabled, forwardToJid, listening, tasks,
                 delivered, wiring, notifyText, last, inserted>>

\* cache.add(key, container, authorJid), called directly
CallAdd(key) ==
  /\ cache' = add(cache, key, Container(key, TextMsg("hello")), AuthorOf(key), now, nextOid)
  /\ nextOid' = nextOid + 1
  /\ inserted' = Append(inserted, key)
  /\ last' = [NoCall EXCEPT !.op = "add", !.key = key, !.ret = nextOid,
                            !.before = TotalSize(cache), !.at = now]
  /\ UNCHANGED now
  /\ ConfigUnchanged

CacheAdd(key) ==
  /\ nextOid <= MaxCalls
  /\ CallAdd(key)

\* cache.getByRevokedKey(key), called directly
CacheGet(key) ==
  LET r == getByRevokedKey(cache, key, now)
      p == Probe(cache, key)
  IN  /\ cache' = r.cache
      /\ last' = [op |-> "get", key |-> key, probed |-> p.oid,
                  expired |-> IsRec(p) /\ Expired(p, now),
                  ret |-> r.ret.oid, before |-> TotalSize(cache), at |-> now]
      /\ UNCHANGED <<now, nextOid, inserted>>
      /\ ConfigUnchanged

\* The setInterval callback of the constructor
CacheCleanup ==
  /\ cache.interval
  /\ cache' = cleanup(cache, now)
  /\ last' = [NoCall EXCEPT !.op = "cleanup", !.before = TotalSize(cache)]
  /\ UNCHANGED <<now, nextOid, inserted>>
  /\ ConfigUnchanged

\* cache.evictOldest(count), called directly
CacheEvict(count) ==
  /\ cache' = evictOldest(cache, count)
  /\ last' = [NoCall EXCEPT !.op = "evict", !.before = TotalSize(cache)]
  /\ UNCHANGED <<now, nextOid, inserted>>
  /\ ConfigUnchanged

\* cache.clear(), called directly
CacheClear ==
  /\ cache' = clear(cache)
  /\ last' = [NoCall EXCEPT !.op = "clear", !.before = TotalSize(cache)]
  /\ UNCHANGED <<now, nextOid, inserted>>
  /\ ConfigUnchanged

NextCache ==
  \/ Tick
  \/ \E key \in CacheKeys : CacheAdd(key)
  \/ \E key \in CacheKeys : CacheGet(key)
  \/ CacheCleanup
  \/ \E count \in 1..2 : CacheEvict(count)
  \/ CacheClear

SpecCache == InitCache /\ [][NextCache]_vars

----------------------------------------------------------------------------
(* SpecInserts: a sequence of add() calls, the clock moving in between,    *)
(* observed by lookups at its end.                                         *)

InsertStep(key) ==
  /\ last.op # "get"
  /\ CacheAdd(key)

NextInserts ==
  \/ Tick
  \/ \E key \in CacheKeys : InsertStep(key)
  \/ \E key \in CacheKeys : CacheGet(key)

SpecInserts == InitCache /\ [][NextInserts]_vars

----------------------------------------------------------------------------
(* SpecCapacity: add() calls with pairwise distinct identities.  A fill    *)
(* brings the new cache to the high-water mark, then every add() chooses   *)
(* which of its three keys are new to the indexes.                         *)

\* Fill identities: fresh chat-message pairs, or one message id reported
\* under ever new participants (only the strict key is new).
FreshKey(i)  == Key("c1", "f" \o ToString(i), "")
SharedKey(i) == Key("c1", "s", "q" \o ToString(i))

\* Number of leading shared identities in the second fill
SharedFill == 8

\* The fill is decided by its first add(): all fresh, or SharedFill shared
\* identities followed by fresh ones.
FillShared == inserted # << >> /\ inserted[1] = SharedKey(1)

FillLen == IF FillShared THEN MAX_CACHE + SharedFill - 4 ELSE MAX_CACHE - 1

Filling == nextOid <= FillLen

\* The identities the next add() can carry; none was used before
NextKeys ==
  IF inserted = << >> THEN { FreshKey(1), SharedKey(1) }
  ELSE IF Filling
  THEN { IF FillShared /\ nextOid <= SharedFill THEN SharedKey(nextOid)
                                                 ELSE FreshKey(nextOid) }
  ELSE { Key("c1", "n" \o ToString(nextOid), ""),
         Key("c1", "s", "r" \o ToString(nextOid)),
         Key("c2", "", "r" \o ToString(nextOid)) }

CapacityAdd(key) ==
  /\ nextOid <= FillLen + MaxCalls
  /\ CallAdd(key)

\* The fill happens within one clock tick
CapacityTick ==
  /\ ~Filling
  /\ Tick

\* cache.getByRevokedKey(key) with the identity of the latest add()
CapacityGet ==
  /\ last.op = "add"
  /\ CacheGet(last.key)

NextCapacity ==
  \/ CapacityTick
  \/ \E key \in NextKeys : CapacityAdd(key)
  \/ CapacityGet

SpecCapacity == InitCache /\ [][NextCapacity]_vars

----------------------------------------------------------------------------
(* attachAntiDelete: the revoke handler and the two intake handlers.       *)
(* A task is one call of onUpsert or onUpdate; task.call is the            *)
(* handleRevoke call it is in, or was last in.                             *)

NoCtx == [state |-> "none", live |-> FALSE, key |-> Key("", "", ""), revoker |-> "",
          target |-> "", notice |-> "", probed |-> 0, changed |-> FALSE, rec |-> NoRec,
          caption |-> "", kind |-> "", dl |-> "none", out |-> << >>, queue |-> << >>]

\* An intake call that takes the messages of its batch before the notices
NewTask_MessagesFirst(kind, batch) ==
  [kind |-> kind,
   batch |-> SelectSeq(batch, LAMBDA m : ~("message" \in DOMAIN m
                                            /\ "protocolMessage" \in DOMAIN m.message))
             \o SelectSeq(batch, LAMBDA m : "message" \in DOMAIN m
                                            /\ "protocolMessage" \in DOMAIN m.message),
   pc |-> "start", call |-> NoCtx, result |-> "pending", caught |-> 0]

NewTask(kind, batch) ==
  [kind |-> kind, batch |-> batch, pc |-> "start", call |-> NoCtx,
   result |-> "pending", caught |-> 0]

\* A send that reads forwardToJid again instead of using handleRevoke's targetJid
StartSend_CurrentSink(call, content) ==
  [call EXCEPT !.out = Append(@, [via |-> "channel",
                                  jid |-> IF forwardToJid # "" THEN forwardToJid
                                          ELSE call.key.remoteJid,
                                  content |-> content, status |-> "pending"])]

\* sendWithChannel(sock, jid, content, extra) is called: a send is in flight
StartSend(call, content) ==
  [call EXCEPT !.out = Append(@, [via |-> "channel", jid |-> call.target,
                                  content |-> content, status |-> "pending"])]

\* sock.sendMessage(jid, content, extra) is called from safeSend's catch
StartBare(call) ==
  [call EXCEPT !.out = Append(@, [via |-> "bare", jid |-> call.out[Len(call.out)].jid,
                                  content |-> call.out[Len(call.out)].content,
                                  status |-> "pending"])]

\* The send in flight has settled
Settle(call, status) == [call EXCEPT !.out[Len(call.out)].status = status]

\* { text: `${notice}\n(Couldn't restore content)` }
MissContent(notice) == [text |-> notice \o "\n(Couldn't restore content)"]

\* const text = caption || '(no text content)'; { text: `${notice}\n\n${text}` }
TextContent(notice, caption) ==
  [text |-> notice \o "\n\n" \o (IF caption # "" THEN caption ELSE "(no text content)")]

\* { text: `${notice}\n(Media could not be restored)` }
MediaFailedContent(notice) == [text |-> notice \o "\n(Media could not be restored)"]

\* A handleRevoke without the check of the enabled flag at its start
handleRevoke_IgnoresFlag(g, t, revokedKey, revokerJid) ==
  LET chatId   == revokedKey.remoteJid
      deleter  == IF revokerJid # "" THEN revokerJid
                  ELSE IF revokedKey.participant # "" THEN revokedKey.participant
                  ELSE revokedKey.remoteJid
      r        == getByRevokedKey(g.cache, revokedKey, now)
      target   == IF forwardToJid # "" THEN forwardToJid ELSE chatId
      notice   == buildNoticeText(deleter, chatId, notifyText, now)
      call0    == [NoCtx EXCEPT !.state = "running", !.key = revokedKey,
                                !.revoker = revokerJid]
      call1    == [call0 EXCEPT !.live = TRUE, !.target = target, !.notice = notice.text,
                                !.probed = Probe(g.cache, revokedKey).oid,
                                !.changed = (r.cache # g.cache), !.rec = r.ret]
      caption  == extractText(Obj(r.ret.container, "message"))
      kind     == detectMediaKind(Obj(r.ret.container, "message"))
      g1       == [g EXCEPT !.cache = r.cache]
  IN  IF chatId = ""
      THEN [g |-> g, t |-> [t EXCEPT !.pc = "ret", !.call = [call0 EXCEPT !.state = "returned"]]]
      ELSE IF notice.thrown
      THEN [g |-> g1, t |-> [t EXCEPT !.pc = "ret", !.call = [call1 EXCEPT !.state = "threw"]]]
      ELSE IF ~IsRec(r.ret)
      THEN [g |-> g1,
            t |-> [t EXCEPT !.pc = "send",
                            !.call = StartSend(call1, MissContent(notice.text))]]
      ELSE IF kind = ""
      THEN [g |-> g1,
            t |-> [t EXCEPT !.pc = "send",
                            !.call = StartSend([call1 EXCEPT !.caption = caption],
                                               TextContent(notice.text, caption))]]
      ELSE [g |-> g1,
            t |-> [t EXCEPT !.pc = "dl",
                            !.call = [call1 EXCEPT !.caption = caption, !.kind = kind,
                                                   !.dl = "pending"]]]

\* handleRevoke(revokedKey, revokerJid) up to its first await, or to its end.
\* g holds what synchronous code can change: cache, nextOid, inserted.
\* call.live: the call got past its enabled and chat-id checks;
\* call.probed, call.changed: what the lookup reached, whether it purged.
handleRevoke(g, t, revokedKey, revokerJid) ==
  LET chatId   == revokedKey.remoteJid
      deleter  == IF revokerJid # "" THEN revokerJid
                  ELSE IF revokedKey.participant # "" THEN revokedKey.participant
                  ELSE revokedKey.remoteJid
      r        == getByRevokedKey(g.cache, revokedKey, now)
      target   == IF forwardToJid # "" THEN forwardToJid ELSE chatId
      notice   == buildNoticeText(deleter, chatId, notifyText, now)
      call0    == [NoCtx EXCEPT !.state = "running", !.key = revokedKey,
                                !.revoker = revokerJid]
      call1    == [call0 EXCEPT !.live = TRUE, !.target = target, !.notice = notice.text,
                                !.probed = Probe(g.cache, revokedKey).oid,
                                !.changed = (r.cache # g.cache), !.rec = r.ret]
      caption  == extractText(Obj(r.ret.container, "message"))
      kind     == detectMediaKind(Obj(r.ret.container, "message"))
      g1       == [g EXCEPT !.cache = r.cache]
  IN  IF ~enabled \/ chatId = ""
      THEN [g |-> g, t |-> [t EXCEPT !.pc = "ret", !.call = [call0 EXCEPT !.state = "returned"]]]
      ELSE IF notice.thrown
      THEN [g |-> g1, t |-> [t EXCEPT !.pc = "ret", !.call = [call1 EXCEPT !.state = "threw"]]]
      ELSE IF ~IsRec(r.ret)
      THEN [g |-> g1,
            t |-> [t EXCEPT !.pc = "send",
                            !.call = StartSend(call1, MissContent(notice.text))]]
      ELSE IF kind = ""
      THEN [g |-> g1,
            t |-> [t EXCEPT !.pc = "send",
                            !.call = StartSend([call1 EXCEPT !.caption = caption],
                                               TextContent(notice.text, caption))]]
      ELSE [g |-> g1,
            t |-> [t EXCEPT !.pc = "dl",
                            !.call = [call1 EXCEPT !.caption = caption, !.kind = kind,
                                                   !.dl = "pending"]]]

\* A loop body without its try/catch: what is thrown rejects the intake call
AfterElement_NoCatch(t, thrown) ==
  IF thrown THEN [t EXCEPT !.pc = "done", !.result = "rejected"]
  ELSE [t EXCEPT !.batch = Tail(@), !.pc = "start"]

\* A loop that gives up the rest of its batch once handleRevoke has returned
AfterElement_Break(t, thrown) ==
  IF t.pc = "ret" THEN [t EXCEPT !.batch = << >>, !.pc = "start"]
  ELSE [t EXCEPT !.batch = Tail(@), !.pc = "start",
                 !.caught = IF thrown THEN 1 ELSE @]

\* The end of one iteration of the for loop: try { ... } catch (e) { dlog }.
\* Whether or not the body has thrown, the loop goes on with the next element.
AfterElement(t, thrown) ==
  [t EXCEPT !.batch = Tail(@), !.pc = "start",
            !.caught = IF thrown THEN 1 ELSE @]

\* pm && pm.type === 0 && pm.key
IsRevoke(pm) == ~IsNull(pm) /\ Obj(pm, "type") = 0 /\ "key" \in DOMAIN pm

\* An onUpsert that archives without looking at the flag
Archive_IgnoresFlag(g, m) ==
  IF "message" \notin DOMAIN m THEN g
  ELSE [g EXCEPT !.cache = add(g.cache, m.key, m, AuthorOf(m.key), now, g.nextOid),
                 !.nextOid = @ + 1,
                 !.inserted = Append(@, m.key)]

\* An onUpsert that leaves out the messages of the local account
Archive_SkipsOwn(g, m) ==
  IF ~enabled \/ "message" \notin DOMAIN m \/ "fromMe" \in DOMAIN m.key THEN g
  ELSE [g EXCEPT !.cache = add(g.cache, m.key, m, AuthorOf(m.key), now, g.nextOid),
                 !.nextOid = @ + 1,
                 !.inserted = Append(@, m.key)]

\* onUpsert on an element that is no revoke notice:
\* if (!enabled) continue; if (!m?.message) continue; cache.add(...)
Archive(g, m) ==
  IF ~enabled \/ "message" \notin DOMAIN m THEN g
  ELSE [g EXCEPT !.cache = add(g.cache, m.key, m, AuthorOf(m.key), now, g.nextOid),
                 !.nextOid = @ + 1,
                 !.inserted = Append(@, m.key)]

\* The for loop of onUpsert / onUpdate from the head of t.batch up to the
\* next await, or to the end of the batch
RECURSIVE RunLoop(_, _)
RunLoop(g, t) ==
  IF t.result # "pending" THEN [g |-> g, t |-> t]
  ELSE IF t.batch = << >>
  THEN [g |-> g, t |-> [t EXCEPT !.pc = "done", !.result = "resolved", !.call = NoCtx]]
  ELSE
    LET m  == Head(t.batch)
        pm == IF t.kind = "upsert"
              THEN Obj(Obj(m, "message"), "protocolMessage")
              ELSE Obj(Obj(Obj(m, "update"), "message"), "protocolMessage")
    IN  IF "null" \in DOMAIN m
        THEN RunLoop(g, AfterElement(t, TRUE))
        ELSE IF IsRevoke(pm)
        THEN handleRevoke(g, t, pm.key,
                          IF t.kind = "upsert" THEN AuthorOf(m.key) ELSE "")
        ELSE IF t.kind = "update"
        THEN RunLoop(g, AfterElement(t, FALSE))
        ELSE RunLoop(Archive(g, m), AfterElement(t, FALSE))

\* A handleRevoke that sends its content a second time when the send failed
AfterSend_Retry(call) ==
  IF call.out[Len(call.out)].status = "failed" /\ Len(call.out) < 3
  THEN [pc |-> "send", call |-> StartSend(call, call.out[Len(call.out)].content)]
  ELSE [pc |-> "ret", call |-> [call EXCEPT !.state = "returned"]]

\* A handleRevoke that looks at the flag again before its next send
AfterSend_ChecksFlag(call) ==
  IF call.queue # << >> /\ enabled
  THEN [pc |-> "send", call |-> StartSend([call EXCEPT !.queue = Tail(@)], Head(call.queue))]
  ELSE [pc |-> "ret", call |-> [call EXCEPT !.state = "returned"]]

\* handleRevoke after a safeSend has returned: the next send, or return
AfterSend(call) ==
  IF call.queue # << >>
  THEN [pc |-> "send", call |-> StartSend([call EXCEPT !.queue = Tail(@)], Head(call.queue))]
  ELSE [pc |-> "ret", call |-> [call EXCEPT !.state = "returned"]]

\* safeSend after the injected sendWithChannel has failed.  The bot's
\* sendWithChannel catches the failure itself and returns undefined; a
\* primitive that rejects sends safeSend into its bare sock.sendMessage.
AfterPrimaryFailure(call, w) ==
  IF w = "bot" THEN AfterSend(Settle(call, "failed"))
  ELSE [pc |-> "bare", call |-> StartBare(Settle(call, "failed"))]

\* A media path without its try/catch: a failed download rejects handleRevoke
AfterDownload_NoCatch(call, ok) ==
  IF ok
  THEN [pc |-> "send",
        call |-> StartSend([call EXCEPT !.dl = "ok", !.queue =
                               <<[image |-> MediaBytes(call.rec.container),
                                  caption |-> call.caption]>>],
                           [text |-> call.notice])]
  ELSE [pc |-> "ret", call |-> [call EXCEPT !.dl = "failed", !.state = "threw"]]

\* handleRevoke after downloadMediaMessage has settled
AfterDownload(call, ok) ==
  IF ok
  THEN [pc |-> "send",
        call |-> StartSend([call EXCEPT !.dl = "ok", !.queue =
                               <<buildOutgoingContent(call.kind, MediaBytes(call.rec.container),
                                                      call.caption)>>],
                           [text |-> call.notice])]
  ELSE [pc |-> "send",
        call |-> StartSend([call EXCEPT !.dl = "failed"], MediaFailedContent(call.notice))]

----------------------------------------------------------------------------
(* The batches the host delivers *)

K1      == Key("c1@g", "m1", "p1@s")
K1Loose == Key("c1@g", "m1", "")
K2      == Key("c1@g", "m2", "p2@s")
KNotice == Key("c1@g", "x1", "p2@s")
\* K2 as it comes with the message itself, which the local account sent
K2Own   == OwnKey("c1@g", "m2", "p2@s")

MText        == Container(K1, TextMsg("hello"))
MEmpty       == Container(K1, TextMsg(""))
MWrapped     == Container(K1, EphemeralMsg(ExtTextMsg("secret")))
MImage       == Container(K2Own, ImageMsg("pic", "IMG"))
MRevoke1     == Container(KNotice, RevokeMsg(K1))
MRevokeLoose == Container(KNotice, RevokeMsg(K1Loose))
MRevoke2     == Container(KNotice, RevokeMsg(K2))
URevoke1     == Update(K1, RevokeMsg(K1))
URevoke2     == Update(K2, RevokeMsg(K2))
URevokeNoJid == Update(K1, RevokeMsg(Key("", "m1", "")))

UpsertBatches ==
  { <<MText, MRevoke1>>, <<MEmpty, MRevokeLoose>>, <<MImage, MRevoke2>>,
    <<NullElement, MWrapped>>, <<MRevoke1, MText>> }

UpdateBatches ==
  { <<URevoke1>>, <<NullElement, URevoke2>>, <<URevokeNoJid, URevoke1>> }

OwnerJid == "own@s"

\* Number of batches the host delivers
MaxBatches == 2

\* What attachAntiDelete is given: the bot's sendWithChannel or a send
\* primitive that rejects on failure, and no notifyText or one that throws
Configs == { <<"bot", "none">>, <<"rejecting", "none">>, <<"bot", "throws">> }

----------------------------------------------------------------------------
(* Spec: the engine attached to a socket *)

Init ==
  /\ cache = NewCache
  /\ now = 0
  /\ nextOid = 1
  /\ inserted = << >>
  /\ enabled = TRUE
  /\ forwardToJid = OwnerJid
  /\ listening = TRUE
  /\ tasks = NoTasks
  /\ delivered = 0
  /\ \E cfg \in Configs : wiring = cfg[1] /\ notifyText = cfg[2]
  /\ last = NoCall

G == [cache |-> cache, nextOid |-> nextOid, inserted |-> inserted]

\* The effect of a synchronous segment of task i that ends in [g, t]
Commit(i, r) ==
  /\ cache' = r.g.cache
  /\ nextOid' = r.g.nextOid
  /\ inserted' = r.g.inserted
  /\ tasks' = IF i > Len(tasks) THEN Append(tasks, r.t) ELSE [tasks EXCEPT ![i] = r.t]

CtlUnchanged == UNCHANGED <<now, enabled, forwardToJid, listening, wiring, notifyText, last>>

\* sock.ev emits messages.upsert / messages.update: the handler runs up to
\* its first await
Deliver(kind, batch) ==
  /\ listening
  /\ delivered < MaxBatches
  /\ delivered' = delivered + 1
  /\ Commit(Len(tasks) + 1, RunLoop(G, NewTask(kind, batch)))
  /\ CtlUnchanged

DeliverUpsert == \E batch \in UpsertBatches : Deliver("upsert", batch)

DeliverUpdate == \E batch \in UpdateBatches : Deliver("update", batch)

\* `await handleRevoke(...)` resumes: the catch of the loop body, then the
\* loop goes on
Resume(i) ==
  /\ tasks[i].pc = "ret"
  /\ Commit(i, RunLoop(G, AfterElement(tasks[i], tasks[i].call.state = "threw")))
  /\ UNCHANGED delivered
  /\ CtlUnchanged

SetTask(i, r) ==
  /\ tasks' = [tasks EXCEPT ![i] = [@ EXCEPT !.pc = r.pc, !.call = r.call]]
  /\ UNCHANGED <<cache, nextOid, inserted, delivered>>
  /\ CtlUnchanged

\* The injected sendWithChannel resolves
SendOk(i) ==
  /\ tasks[i].pc = "send"
  /\ SetTask(i, AfterSend(Settle(tasks[i].call, "ok")))

\* The send under the injected sendWithChannel fails
SendFail(i) ==
  /\ tasks[i].pc = "send"
  /\ SetTask(i, AfterPrimaryFailure(tasks[i].call, wiring))

\* The bare sock.sendMessage of safeSend resolves / rejects
BareOk(i) ==
  /\ tasks[i].pc = "bare"
  /\ SetTask(i, AfterSend(Settle(tasks[i].call, "ok")))

BareFail(i) ==
  /\ tasks[i].pc = "bare"
  /\ SetTask(i, AfterSend(Settle(tasks[i].call, "failed")))

\* downloadMediaMessage resolves / throws
DownloadOk(i) ==
  /\ tasks[i].pc = "dl"
  /\ SetTask(i, AfterDownload(tasks[i].call, TRUE))

DownloadFail(i) ==
  /\ tasks[i].pc = "dl"
  /\ SetTask(i, AfterDownload(tasks[i].call, FALSE))

TaskStep(i) ==
  \/ Resume(i)
  \/ SendOk(i)
  \/ SendFail(i)
  \/ BareOk(i)
  \/ BareFail(i)
  \/ DownloadOk(i)
  \/ DownloadFail(i)

EngineUnchanged == UNCHANGED <<cache, now, nextOid, inserted, tasks, delivered,
                               wiring, notifyText, last>>

Enable ==
  /\ enabled' = TRUE
  /\ UNCHANGED <<forwardToJid, listening>>
  /\ EngineUnchanged

Disable ==
  /\ enabled' = FALSE
  /\ UNCHANGED <<forwardToJid, listening>>
  /\ EngineUnchanged

\* setForwardToJid(jid): forwardToJid = jid || null
SetForwardToJid(jid) ==
  /\ forwardToJid' = jid
  /\ UNCHANGED <<enabled, listening>>
  /\ EngineUnchanged

\* stop(): off(...); cache.stop(); cache.clear()
Stop ==
  /\ listening
  /\ listening' = FALSE
  /\ cache' = clear(cacheStop(cache))
  /\ UNCHANGED <<now, nextOid, inserted, enabled, forwardToJid, tasks, delivered,
                 wiring, notifyText, last>>

\* The setInterval callback of the cache
Sweep ==
  /\ cache.interval
  /\ cache' = cleanup(cache, now)
  /\ UNCHANGED <<now, nextOid, inserted, enabled, forwardToJid, listening, tasks,
                 delivered, wiring, notifyText, last>>

Next ==
  \/ DeliverUpsert
  \/ DeliverUpdate
  \/ \E i \in 1..Len(tasks) : TaskStep(i)
  \/ Enable
  \/ Disable
  \/ \E jid \in {"", OwnerJid} : SetForwardToJid(jid)
  \/ Stop
  \/ Sweep
  \/ Tick

Spec == Init /\ [][Next]_vars

-----
(* Properties of the MessageCache *)

\* Some index holds the record with identity oid
Referenced(c, oid) ==
  \/ \E i \in 1..Len(c.strictMap) : c.strictMap[i].v.oid = oid
  \/ \E i \in 1..Len(c.looseMap)  : c.looseMap[i].v.oid = oid
  \/ \E i \in 1..Len(c.idMap)     : c.idMap[i].v.oid = oid

Participants == { k.participant : k \in CacheKeys }

\* The records the cache holds (every add() puts its record in strictMap)
Cached(c) == { c.strictMap[i].v : i \in 1..Len(c.strictMap) }

\* C2 (TTL): a lookup that reaches a record older than the TTL, by whichever
\* of the three keys, returns a miss and leaves the record in none of the
\* three indexes.
C2_TtlPurgesRecord ==
  (last.op = "get" /\ last.expired) =>
     (last.ret = 0 /\ ~Referenced(cache, last.probed))

\* C3 as claimed: after a sequence of inserts, every cached, non-expired
\* record R is what a lookup with R's chat and message id and any other
\* participant returns.
C3_FallbackEveryRecord ==
  last.op # "get" =>
    \A R \in Cached(cache) :
      ~Expired(R, now) =>
        \A p \in Participants \ {R.container.key.participant} :
          getByRevokedKey(cache, Key(R.container.key.remoteJid, R.container.key.id, p),
                          now).ret = R

\* No add() after R's carried R's chat and message id
LatestForLoose(R) ==
  \A j \in 1..Len(inserted) :
    (inserted[j].remoteJid = R.container.key.remoteJid
       /\ inserted[j].id = R.container.key.id) => j <= R.oid

\* C3 (three-tier fallback), amended: after a sequence of inserts, a cached,
\* non-expired record R that is the last one inserted with its chat and
\* message id is returned by every lookup with that chat and id and another
\* participant p under which no record is cached; and every lookup returns
\* the first hit among strict key, loose key, id-only key, in that order.
C3_Fallback ==
  last.op # "get" =>
    /\ \A R \in Cached(cache) :
         (~Expired(R, now) /\ LatestForLoose(R)) =>
           \A p \in Participants \ {R.container.key.participant} :
             LET k == Key(R.container.key.remoteJid, R.container.key.id, p)
             IN  ~MapHas(cache.strictMap, makeKeys(k).strict) =>
                    getByRevokedKey(cache, k, now).ret = R
    /\ \A k \in CacheKeys :
         LET ks  == makeKeys(k)
             hit == IF MapHas(cache.strictMap, ks.strict) THEN MapGet(cache.strictMap, ks.strict)
                    ELSE IF MapHas(cache.looseMap, ks.loose) THEN MapGet(cache.looseMap, ks.loose)
                    ELSE IF ks.idOnly # "" THEN MapGet(cache.idMap, ks.idOnly)
                    ELSE NoRec
         IN  (IsRec(hit) /\ ~Expired(hit, now)) => getByRevokedKey(cache, k, now).ret = hit

\* A lookup under a participant the record was not inserted with has hit the
\* last record inserted for the chat and message id, while an older record
\* with that chat and message id is cached too
C3_Witness ==
  /\ last.op = "get"
  /\ last.ret # 0
  /\ inserted[last.ret].participant # last.key.participant
  /\ inserted[last.ret].remoteJid = last.key.remoteJid
  /\ inserted[last.ret].id = last.key.id
  /\ \E R \in Cached(cache) :
       /\ R.oid < last.ret
       /\ R.container.key.remoteJid = last.key.remoteJid
       /\ R.container.key.id = last.key.id

\* C4 as claimed: between calls the three indexes never hold more than
\* MAX_CACHE * 3 entries in total, and an add() that finds more returns with
\* the total back under that mark.
C4_NeverAboveHighWater ==
  /\ TotalSize(cache) <= HighWater
  /\ (last.op = "add" /\ last.before > HighWater) => TotalSize(cache) < HighWater

\* C4 (capacity), amended: under add() calls with distinct identities the
\* three indexes never hold more than MAX_CACHE * 3 entries plus the three of
\* the latest add(), and an add() that finds the total above MAX_CACHE * 3
\* returns with the total back under MAX_CACHE * 3.
C4_Capacity ==
  /\ TotalSize(cache) <= HighWater + 3
  /\ (last.op = "add" /\ last.before > HighWater) => TotalSize(cache) < HighWater

\* An add() found the total above the mark and evicted
C4_Witness ==
  /\ last.op = "add"
  /\ last.before > HighWater
  /\ TotalSize(cache) < last.before

----------------------------------------------------------------------------
(* Properties of the revoke handler and the intake handlers *)

\* The handleRevoke calls of the tasks in flight
Calls == { tasks[i].call : i \in 1..Len(tasks) }

\* The safeSend calls of a handleRevoke call: its outbound sends
OutboundSends(call) == SelectSeq(call.out, LAMBDA e : e.via = "channel")

\* The text messages the host delivers, and the text each was sent with
TextMessages == { MText, MEmpty, MWrapped }

SentText(container) ==
  CASE container = MText    -> "hello"
    [] container = MWrapped -> "secret"
    [] OTHER                -> ""

\* A handleRevoke call that is past its enabled and chat-id checks and has
\* found, under the notice's own strict identity, an archived text message
RevokesText(call) ==
  /\ call.live
  /\ IsRec(call.rec)
  /\ call.rec.container \in TextMessages
  /\ call.rec.container.key = call.key

\* What the single send of a text recovery must carry
RoundTripSend(call) ==
  /\ Len(OutboundSends(call)) = 1
  /\ OutboundSends(call)[1].content =
       [text |-> call.notice \o "\n\n" \o
                 (IF SentText(call.rec.container) # "" THEN SentText(call.rec.container)
                  ELSE "(no text content)")]

Consumed(batch, r) == SubSeq(batch, 1, Len(batch) - Len(r.t.batch))

\* C5 (disable/enable and archiving): enable() and disable() change no index;
\* while the flag is off no step of an intake handler changes an index or
\* creates a record; while the flag is on every message with content that
\* onUpsert gets through is in the cache afterwards; and whatever the flag,
\* a lookup with a cached record's own identity returns that record until
\* the record is older than the TTL.
C5_DisableEnable ==
  [][ /\ (enabled' # enabled) => (cache' = cache)
      /\ \A rec \in Cached(cache') :
           ~Expired(rec, now') =>
             getByRevokedKey(cache', rec.container.key, now').ret = rec
      /\ (~enabled /\ tasks' # tasks) => (cache' = cache /\ nextOid' = nextOid)
      /\ (enabled /\ delivered' # delivered) =>
           \A batch \in UpsertBatches :
             LET r == RunLoop(G, NewTask("upsert", batch))
             IN  (tasks' = Append(tasks, r.t) /\ cache' = r.g.cache) =>
                   \A j \in 1..Len(Consumed(batch, r)) :
                     ("message" \in DOMAIN batch[j]
                        /\ ~IsRevoke(Obj(batch[j].message, "protocolMessage")))
                     => \E rec \in Cached(cache') :
                          rec.container = batch[j] /\ rec.at = now
    ]_vars

\* Two observed batches, a message with content in each, have completed: the
\* message of one was skipped while the flag was off, the flag is on again
\* and the message of the other is archived
C5_Witness ==
  /\ enabled
  /\ Len(tasks) = 2
  /\ \A i \in 1..2 : tasks[i].kind = "upsert" /\ tasks[i].result = "resolved"
  /\ nextOid = 2
  /\ Len(cache.strictMap) = 1

\* A handleRevoke call past its checks whose notice names an identity that
\* none of the three indexes has an entry for
RevokesUnknown(call) == call.live /\ call.probed = 0

\* The one send of a cache miss, no download, no index changed
MissReported(call) ==
  /\ ~call.changed
  /\ call.dl = "none"
  /\ call.queue = << >>
  /\ Len(OutboundSends(call)) = 1
  /\ OutboundSends(call)[1].content = [text |-> call.notice \o "\n(Couldn't restore content)"]
  /\ OutboundSends(call)[1].jid = call.target

C7_MediaFailure ==
  \A call \in Calls :
    call.dl = "failed" =>
      /\ call.state # "threw"
      /\ call.queue = << >>
      /\ Len(OutboundSends(call)) = 1
      /\ OutboundSends(call)[1].content =
           [text |-> call.notice \o "\n(Media could not be restored)"]
      /\ \A j \in 1..Len(call.out) : "text" \in DOMAIN call.out[j].content

\* The download of a revoked image failed and handleRevoke has returned
C7_Witness ==
  \E call \in Calls :
    /\ call.dl = "failed"
    /\ call.state = "returned"
    /\ call.rec.container = MImage

\* C8 (media success): when the download of a revoked media record succeeds,
\* handleRevoke performs exactly two outbound sends to one target, the bare
\* notice header first and then the media with the record's caption, the
\* second starting only when the first has settled.
C8_MediaSuccess ==
  \A call \in Calls :
    call.dl = "ok" =>
      LET sends == OutboundSends(call)
      IN  /\ Len(sends) \in {1, 2}
          /\ call.state = "returned" => Len(sends) = 2
          /\ sends[1].content = [text |-> call.notice]
          /\ Len(sends) = 2 =>
               /\ sends[2].jid = sends[1].jid
               /\ call.rec.container = MImage =>
                    sends[2].content = [image |-> "IMG", caption |-> "pic"]
          /\ \A j \in 1..Len(call.out) :
               call.out[j].status = "pending" => j = Len(call.out)

\* The image was downloaded and sent after its header
C8_Witness ==
  \E call \in Calls :
    /\ call.dl = "ok"
    /\ call.state = "returned"
    /\ Len(call.out) = 2
    /\ call.out[2].status = "ok"

\* C9 (send fallback) as claimed, for the engine as the bot wires it: a
\* failed primary send is followed by one bare sock.sendMessage with the same
\* target and content, and a bare send follows nothing but a failed primary.
C9_BareFollowsFailure ==
  wiring = "bot" =>
    \A call \in Calls :
      \A j \in 1..Len(call.out) :
        /\ (call.out[j].via = "channel" /\ call.out[j].status = "failed") =>
             /\ j < Len(call.out)
             /\ call.out[j + 1].via = "bare"
             /\ call.out[j + 1].jid = call.out[j].jid
             /\ call.out[j + 1].content = call.out[j].content
        /\ call.out[j].via = "bare" =>
             (j > 1 /\ call.out[j - 1].via = "channel" /\ call.out[j - 1].status = "failed")

\* C10 (no failure escapes an intake call): no call of onUpsert or onUpdate
\* rejects, whatever fails in an element; an element that fails does not end
\* the loop, which ends only when the batch is used up.
C10_NoEscape ==
  \A i \in 1..Len(tasks) :
    /\ tasks[i].result # "rejected"
    /\ tasks[i].pc = "done" <=> tasks[i].result = "resolved"
    /\ tasks[i].result = "resolved" => tasks[i].batch = << >>

\* An intake call has completed after an element of its batch failed, and
\* the element after the failed one was archived
C10_Witness ==
  \E i \in 1..Len(tasks) :
    /\ tasks[i].result = "resolved"
    /\ tasks[i].caught = 1
    /\ tasks[i].kind = "upsert"
    /\ \E rec \in Cached(cache) : rec.container = MWrapped

\* Task i starts a handleRevoke call in this step: its batch is delivered, or
\* its loop resumes after the previous element
StartsCall(i) == i > Len(tasks) \/ (tasks[i].pc = "ret" /\ tasks'[i] # tasks[i])

\* C11 (sink resolution): a handleRevoke call that gets past its checks takes
\* as target the forward identity if one is set when the call starts, else
\* the chat id of the revoked key (so the chat again after setForwardToJid
\* with an empty value); the target stays what it is for the whole call and
\* every send of the call, primary or bare, goes to it.
C11_SinkResolution ==
  [][ \A i \in 1..Len(tasks') :
        LET c == tasks'[i].call
        IN  /\ (c.live /\ StartsCall(i)) =>
                 c.target = IF forwardToJid # "" THEN forwardToJid ELSE c.key.remoteJid
            /\ (c.live /\ ~StartsCall(i)) => c.target = tasks[i].call.target
            /\ \A j \in 1..Len(c.out) : c.out[j].jid = c.target
            /\ c.live => c.target \in {OwnerJid, c.key.remoteJid} \ {""}
    ]_vars

\* A recovery handled while no forward identity was set has sent its image
\* and its header to the chat, though a forward identity is set by now
C11_Witness ==
  /\ forwardToJid = OwnerJid
  /\ \E call \in Calls :
       /\ call.state = "returned"
       /\ call.dl = "ok"
       /\ Len(call.out) = 2
       /\ call.out[2].jid = "c1@g"

\* C12 (stop() releases everything) as claimed: once stop() has returned
\* the three indexes are empty and the sweep is off, in every later state,
\* whatever was in flight when stop() was called.
C12_EmptyAfterStop ==
  ~listening => (TotalSize(cache) = 0 /\ ~cache.interval)

\* C13 (disabled revocation handling is a no-op): a revocation notice that an
\* intake handler reaches while the flag is off starts no recovery: no cache
\* lookup, no send, no download, and no index changes (no purge of an
\* expired record); and disable() itself changes no index.
C13_DisabledNoOp ==
  [][ /\ (enabled /\ ~enabled') => cache' = cache
      /\ ~enabled =>
           \A i \in 1..Len(tasks') :
             StartsCall(i) =>
               LET c == tasks'[i].call
               IN  /\ ~c.live
                   /\ c.probed = 0
                   /\ ~c.changed
                   /\ c.out = << >>
                   /\ c.dl = "none"
                   /\ tasks'[i].pc \in {"ret", "done"}
                   /\ cache' = cache
    ]_vars

\* A notice naming a cached record older than the TTL was handled while the
\* flag was off: nothing was sent and the record is still cached
C13_Witness ==
  /\ ~enabled
  /\ \E call \in Calls :
       /\ call.state = "returned"
       /\ ~call.live
       /\ call.out = << >>
       /\ \E rec \in Cached(cache) : rec.container.key = call.key /\ Expired(rec, now)

\* An element of an observed batch that is a revocation notice
IsNotice(m) == IsRevoke(Obj(Obj(m, "message"), "protocolMessage"))

\* An element of an observed batch that is no notice and has content
HasContent(m) == "message" \in DOMAIN m /\ ~IsNotice(m)

\* What a step of onUpsert call i has done with the elements of `before`
\* (what was left of its batch when the step began): the elements it got
\* through were no notices, and each one with content was inserted, once, if
\* the flag is on, whoever its author; the element it stopped at is a notice,
\* handed to handleRevoke with the reporting identity as revoker.
Routed(i, before) ==
  LET t    == tasks'[i]
      n    == Len(before) - Len(t.batch)
      gone == SubSeq(before, 1, n)
      made == { j \in 1..n : enabled /\ HasContent(gone[j]) }
  IN  /\ \A j \in 1..n : ~IsNotice(gone[j])
      /\ \A j \in made : \E rec \in Cached(cache') :
                            rec.container = gone[j] /\ rec.oid >= nextOid
      /\ nextOid' = nextOid + Cardinality(made)
      /\ t.pc # "done" =>
           /\ IsNotice(Head(t.batch))
           /\ t.call.state # "none"
           /\ t.call.key = Head(t.batch).message.protocolMessage.key
           /\ t.call.revoker = (IF Head(t.batch).key.participant # ""
                                THEN Head(t.batch).key.participant
                                ELSE Head(t.batch).key.remoteJid)
      /\ t.pc = "done" => t.batch = << >>

\* C14 (observed-batch routing): every element of an observed batch is
\* handled in one of two ways.  A revocation notice goes to handleRevoke with
\* the key it names and the reporting identity as revoker, and is never
\* inserted; any other element with content is inserted if the flag is on,
\* also when the local account is its author.
C14_BatchRouting ==
  [][ /\ \A rec \in Cached(cache') : ~IsNotice(rec.container)
      /\ \A i \in 1..Len(tasks) :
           (tasks[i].kind = "upsert" /\ tasks[i].pc = "ret" /\ tasks'[i] # tasks[i]) =>
             Routed(i, Tail(tasks[i].batch))
      /\ (delivered' # delivered) =>
           \A batch \in UpsertBatches :
             tasks' = Append(tasks, RunLoop(G, NewTask("upsert", batch)).t) =>
               Routed(Len(tasks'), batch)
    ]_vars

\* A message of the local account is cached, and a notice of the same batch
\* is with handleRevoke
C14_Witness ==
  /\ \E rec \in Cached(cache) : "fromMe" \in DOMAIN rec.container.key
  /\ \E i \in 1..Len(tasks) :
       /\ tasks[i].kind = "upsert"
       /\ tasks[i].pc = "dl"
       /\ tasks[i].call.revoker = "p2@s"

\* The key a notice names, on the observed feed and on the update feed
NoticeKey(kind, m) ==
  IF kind = "upsert" THEN m.message.protocolMessage.key
  ELSE m.update.message.protocolMessage.key

ResumedThrough(i) ==
  LET rest == Tail(tasks[i].batch)
  IN  SubSeq(rest, 1, Len(rest) - Len(tasks'[i].batch))

\* The notice of call names the message m
Names(call, m) == makeKeys(call.key).strict = makeKeys(m.key).strict

\* Call i of onUpdate handles the revocation of a message that a call of
\* onUpsert, waiting at an earlier element, has still to insert
Racing(i) ==
  /\ tasks[i].kind = "update"
  /\ RevokesUnknown(tasks[i].call)
  /\ \E j \in 1..Len(tasks) :
       /\ tasks[j].kind = "upsert"
       /\ \E k \in 2..Len(tasks[j].batch) :
            HasContent(tasks[j].batch[k]) /\ Names(tasks[i].call, tasks[j].batch[k])

C17_ToggleTiming ==
  [][ \A i \in 1..Len(tasks') :
        LET t == tasks'[i]
            c == t.call
        IN  /\ (StartsCall(i) /\ t.pc # "done") =>
                 (c.live <=> (enabled /\ c.key.remoteJid # ""))
            /\ (i <= Len(tasks) /\ t # tasks[i]) =>
                 LET old == tasks[i].call
                 IN  /\ tasks[i].pc # "ret" => c.live = old.live
                     /\ tasks[i].pc = "dl" => (t.pc = "send" /\ Len(c.out) = 1)
                     /\ (tasks[i].pc \in {"send", "bare"} /\ old.queue # << >>) =>
                          \/ t.pc = "bare" /\ c.queue = old.queue
                          \/ /\ t.pc = "send"
                             /\ c.queue = Tail(old.queue)
                             /\ c.out[Len(c.out)].content = Head(old.queue)
                             /\ c.out[Len(c.out)].status = "pending"
                     /\ (tasks[i].pc = "ret" /\ t.kind = "upsert") =>
                          \A k \in 1..Len(ResumedThrough(i)) :
                            LET m == ResumedThrough(i)[k]
                            IN  HasContent(m) =>
                                  (enabled <=> \E rec \in Cached(cache') :
                                                  rec.container = m /\ rec.oid >= nextOid)
    ]_vars

\* disable() was called while a recovery was suspended: the flag is off, the
\* header is being sent and the media is still to be sent
C17_Witness ==
  /\ ~enabled
  /\ \E i \in 1..Len(tasks) :
       /\ tasks[i].pc = "send"
       /\ tasks[i].call.live
       /\ tasks[i].call.queue # << >>

\* A handleRevoke call with nothing left to wait for
Finished(call) ==
  /\ call.state \in {"returned", "threw"}
  /\ call.queue = << >>
  /\ call.dl # "pending"
  /\ \A j \in 1..Len(call.out) : call.out[j].status # "pending"

\* The message at position k of a batch comes back from the cache
Hit(call, batch, k) == IsRec(call.rec) /\ call.rec.container = batch[k]

Contains(s, sub) ==
  \E i \in 1..(Len(s) - Len(sub) + 1) : SubSeq(s, i, i + Len(sub) - 1) = sub

\* What the recovery has put out: the texts of its sends
SentTexts(call) ==
  { call.out[j].content.text :
      j \in { k \in 1..Len(call.out) : "text" \in DOMAIN call.out[k].content } }

\* C19 (partial recovery keeps the recovered piece) as claimed: when the
\* media of a revoked record with a caption cannot be restored, what the
\* recovery puts out has the notice header, the caption and a marker for the
\* missing media.
C19_CaptionKept ==
  \A call \in Calls :
    (call.state = "returned" /\ call.dl = "failed" /\ call.caption # "") =>
      /\ \E s \in SentTexts(call) : Contains(s, call.notice)
      /\ \E s \in SentTexts(call) : Contains(s, call.caption)
      /\ \E s \in SentTexts(call) : Contains(s, "Media could not be restored")

\* The keys of map m under which the record with identity oid is the value
KeysOf(m, oid) == { m[i].k : i \in { j \in 1..Len(m) : m[j].v.oid = oid } }

\* C20 as claimed: when add() has returned, its record is the value under
\* the strict key, the loose key and the id-only key of the identity; and in
\* no state is a record in some of the three indexes and not in the others.
C20_AllThreeOrNone ==
  /\ last.op = "add" =>
       /\ MapGet(cache.strictMap, makeKeys(last.key).strict).oid = last.ret
       /\ MapGet(cache.looseMap, makeKeys(last.key).loose).oid = last.ret
       /\ MapGet(cache.idMap, makeKeys(last.key).idOnly).oid = last.ret
  /\ \A oid \in 1..(nextOid - 1) :
       Referenced(cache, oid) =>
         /\ KeysOf(cache.strictMap, oid) # {}
         /\ KeysOf(cache.looseMap, oid) # {}
         /\ KeysOf(cache.idMap, oid) # {}

\* C20 (insert is one operation over the indexes), amended: add() makes one
\* record, and when it has returned that one record is the value under the
\* strict key and the loose key of the identity, and under the id-only key
\* if the message id is not empty (with an empty id idMap is left alone);
\* the record is under no other key, and every other entry is what it was or
\* is gone by eviction.  add() has no await, so this is the first state any
\* other call sees.
C20_Insert ==
  last.op = "add" =>
    LET ks == makeKeys(last.key)
    IN  /\ last.ret = nextOid - 1
        /\ KeysOf(cache.strictMap, last.ret) = {ks.strict}
        /\ KeysOf(cache.looseMap, last.ret) = {ks.loose}
        /\ KeysOf(cache.idMap, last.ret) = IF ks.idOnly # "" THEN {ks.idOnly} ELSE {}
        /\ MapGet(cache.strictMap, ks.strict) = MapGet(cache.looseMap, ks.loose)
        /\ ks.idOnly # "" =>
             MapGet(cache.idMap, ks.idOnly) = MapGet(cache.strictMap, ks.strict)
        /\ MapGet(cache.strictMap, ks.strict).at <= now
        /\ MapGet(cache.strictMap, ks.strict).container.key = last.key

\* add() has returned for an identity whose loose key and id-only key held
\* an older record: all three keys now hold the new one
C20_Witness ==
  /\ last.op = "add"
  /\ last.ret > 1
  /\ makeKeys(last.key).idOnly # ""
  /\ KeysOf(cache.idMap, last.ret) # {}
  /\ \E oid \in 1..(last.ret - 1) :
       /\ KeysOf(cache.strictMap, oid) # {}
       /\ KeysOf(cache.looseMap, oid) = {}
       /\ KeysOf(cache.idMap, oid) = {}

----------------------------------------------------------------------------
(* Properties of the indexes under add, lookup, sweep and eviction *)

\* This step is a call of add()
IsAdd == nextOid' = nextOid + 1 /\ last'.op = "add"

\* Map m has one entry per key
OnePerKey(m) == \A i, j \in 1..Len(m) : m[i].k = m[j].k => i = j

\* The entries of map m under keys other than k are in map n as they were
SameExcept(m, n, k) ==
  \A i \in 1..Len(m) : m[i].k # k => MapGet(n, m[i].k) = m[i].v

\* C21 as claimed: an add() whose strict key is present leaves every record
\* under another strict key reachable through exactly the keys it was
\* reachable through before.
C21_OthersKeepTheirKeys ==
  [][ (IsAdd /\ MapHas(cache.strictMap, makeKeys(last'.key).strict)) =>
        \A i \in 1..Len(cache.strictMap) :
          LET oid == cache.strictMap[i].v.oid
          IN  cache.strictMap[i].k # makeKeys(last'.key).strict =>
                /\ KeysOf(cache'.strictMap, oid) = KeysOf(cache.strictMap, oid)
                /\ KeysOf(cache'.looseMap, oid) = KeysOf(cache.looseMap, oid)
                /\ KeysOf(cache'.idMap, oid) = KeysOf(cache.idMap, oid)
    ]_vars

\* C21 (strict-key uniqueness and replacement), amended: strictMap has one
\* record per strict key; an add() that triggers no eviction and whose
\* strict key is present puts its record in the place of the prior one, which
\* no index refers to afterwards; every record under another strict key
\* stays under that key, and every loose or id-only entry stays what it was
\* except the entries under the loose key and the id-only key of the new
\* identity, which now refer to the new record, whichever record they
\* referred to before.
C21_Replacement ==
  [][ /\ OnePerKey(cache'.strictMap)
      /\ IsAdd =>
           LET ks    == makeKeys(last'.key)
               prior == MapGet(cache.strictMap, ks.strict)
           IN  /\ IsRec(prior) => ~Referenced(cache', prior.oid)
               /\ MapGet(cache'.strictMap, ks.strict).oid = last'.ret
               /\ MapGet(cache'.looseMap, ks.loose).oid = last'.ret
               /\ SameExcept(cache.strictMap, cache'.strictMap, ks.strict)
               /\ SameExcept(cache.looseMap, cache'.looseMap, ks.loose)
               /\ SameExcept(cache.idMap, cache'.idMap, ks.idOnly)
               /\ Len(cache'.strictMap) = Len(cache.strictMap) + (IF IsRec(prior) THEN 0 ELSE 1)
    ]_vars

\* An identity was inserted a second time: its first record is in no index,
\* and a record under another strict key, same chat and message id, that
\* had the loose and the id-only entry is left with its strict entry alone
C21_Witness ==
  /\ last.op = "add"
  /\ \E j \in 1..(last.ret - 1) : inserted[j] = last.key /\ ~Referenced(cache, j)
  /\ \E q \in 1..(last.ret - 1) :
       /\ inserted[q] # last.key
       /\ KeysOf(cache.strictMap, q) # {}
       /\ KeysOf(cache.looseMap, q) = {}
       /\ KeysOf(cache.idMap, q) = {}

\* This step is a run of the sweep
IsCleanup == last'.op = "cleanup" /\ now' = now

\* The entries of map m whose record is not expired at t are in map n
KeepsLive(m, n, t) ==
  \A i \in 1..Len(m) : ~Expired(m[i].v, t) => MapGet(n, m[i].k) = m[i].v

\* No entry of map m is expired at t
NoneExpired(m, t) == \A i \in 1..Len(m) : ~Expired(m[i].v, t)

\* C22 as claimed: at no time, between sweeps included, does an index hold
\* a record older than the TTL.
C22_NothingPastTtl ==
  /\ NoneExpired(cache.strictMap, now)
  /\ NoneExpired(cache.looseMap, now)
  /\ NoneExpired(cache.idMap, now)

\* C22 (TTL expiry soundness), amended: when cleanup() returns, no index
\* holds a record with now - at > ttlMs, every entry of a record that is not
\* expired is where it was, and a record that was referenced is either
\* referenced by the same keys as before or by no index at all.  Between
\* sweeps, the indexes keep an expired record until the next sweep, or until
\* a lookup that probes it.
C22_SweepSound ==
  [][ IsCleanup =>
        /\ NoneExpired(cache'.strictMap, now)
        /\ NoneExpired(cache'.looseMap, now)
        /\ NoneExpired(cache'.idMap, now)
        /\ KeepsLive(cache.strictMap, cache'.strictMap, now)
        /\ KeepsLive(cache.looseMap, cache'.looseMap, now)
        /\ KeepsLive(cache.idMap, cache'.idMap, now)
        /\ TotalSize(cache') <= TotalSize(cache)
        /\ \A oid \in 1..(nextOid - 1) :
             \/ ~Referenced(cache', oid)
             \/ /\ KeysOf(cache'.strictMap, oid) = KeysOf(cache.strictMap, oid)
                /\ KeysOf(cache'.looseMap, oid) = KeysOf(cache.looseMap, oid)
                /\ KeysOf(cache'.idMap, oid) = KeysOf(cache.idMap, oid)
    ]_vars

\* A sweep removed entries and left a record that is not expired in place
C22_Witness ==
  /\ last.op = "cleanup"
  /\ last.before > TotalSize(cache)
  /\ \E rec \in Cached(cache) :
       /\ ~Expired(rec, now)
       /\ KeysOf(cache.looseMap, rec.oid) # {}
       /\ KeysOf(cache.idMap, rec.oid) # {}

\* This step is an add() that finds the total above the mark and evicts
IsEvictingAdd == IsAdd /\ TotalSize(cache) > HighWater

\* The total an eviction of EvictCount records with three entries each
\* leaves of the highest total an add() can find
LowWater == HighWater + 3 - 3 * EvictCount

\* C23 as claimed: an eviction goes on until the total is back under a
\* low-water mark, so every eviction ends with the total at that mark: under
\* it, and at most the three entries of one record under it.
C23_UntilLowWater ==
  [][ IsEvictingAdd =>
        LET left == TotalSize(evictOldest(cache, EvictCount))
        IN  left <= LowWater /\ LowWater < left + 3
    ]_vars

\* C23 (eviction order and completeness), amended: an add() that finds the
\* total above MAX_CACHE * 3 evicts the ceil(MAX_CACHE * 0.3) oldest records
\* of strictMap, no more and no fewer: no surviving record is older than an
\* evicted one, every evicted record is gone from all three indexes when
\* the eviction ends, every survivor keeps its entries, and the total is back
\* under MAX_CACHE * 3; the eviction stops on that count, not on a total.
C23_Eviction ==
  [][ IsEvictingAdd =>
        LET Evicted   == { r \in Cached(cache) : r \notin Cached(cache') }
            Survivors == { r \in Cached(cache) : r \in Cached(cache') }
        IN  /\ Cardinality(Evicted) = Min(EvictCount, Len(cache.strictMap))
            /\ \A e \in Evicted : \A r \in Survivors : e.at <= r.at
            /\ \A e \in Evicted : ~Referenced(cache', e.oid)
            /\ \A r \in Survivors :
                 /\ KeysOf(cache.looseMap, r.oid) \ {makeKeys(last'.key).loose}
                      \subseteq KeysOf(cache'.looseMap, r.oid)
                 /\ KeysOf(cache.idMap, r.oid) \ {makeKeys(last'.key).idOnly}
                      \subseteq KeysOf(cache'.idMap, r.oid)
            /\ TotalSize(cache') < HighWater
    ]_vars

\* An add() evicted while records of two ages were cached, the younger ones
\* survived, and the total it left is above the low-water mark
C23_Witness ==
  /\ last.op = "add"
  /\ last.before > HighWater
  /\ TotalSize(cache) < last.before
  /\ TotalSize(cache) > LowWater + 3
  /\ \E r \in Cached(cache) : r.oid # last.ret /\ r.at > 0
  /\ \A j \in 1..EvictCount : ~Referenced(cache, j)

\* This step is a call of getByRevokedKey()
IsGet == last'.op = "get" /\ now' = now /\ nextOid' = nextOid

\* C24 (lookup is read-only on hit): a getByRevokedKey() that finds a
\* record within its TTL returns that record, one that finds nothing under
\* the three keys returns null, and both leave the three maps as they were,
\* entries, order and the at, container and authorJid of every record.
C24_ReadOnlyLookup ==
  [][ (IsGet /\ ~last'.expired) =>
        /\ cache' = cache
        /\ last'.ret = last'.probed
        /\ last'.ret # 0 => \E rec \in Cached(cache') :
                              /\ rec.oid = last'.ret
                              /\ rec.container = Container(inserted[rec.oid],
                                                           TextMsg("hello"))
                              /\ rec.authorJid = AuthorOf(inserted[rec.oid])
    ]_vars

\* A lookup returned, through a fallback key, a record inserted a tick ago
C24_Witness ==
  /\ last.op = "get"
  /\ last.ret # 0
  /\ inserted[last.ret] # last.key
  /\ last.before = TotalSize(cache)
  /\ \E rec \in Cached(cache) : rec.oid = last.ret /\ rec.at < now

----------------------------------------------------------------------------
(* SpecResolve: resolveContentNode run call by call on an envelope held as *)
(* an object graph, so that an envelope can be nested to any depth and a   *)
(* wrapper can lead back to an envelope that contains it.  The variable    *)
(* last holds the call in progress.                                        *)

\* Objects of an envelope graph
MaxNodes == 4

\* Nested calls the engine's stack takes before it throws a RangeError
StackLimit == 6

\* Depth of wrappers the specification lets the resolver go through
DepthBound == 2

Wrappers == { "ephemeralMessage", "viewOnceMessage", "viewOnceMessageV2",
              "viewOnceMessageV2Extension" }

\* An object is a wrapper whose message field names an object (0: the field
\* is missing), or a text node
GraphNodes ==
  { [wrapper |-> w, message |-> n] : w \in Wrappers, n \in 0..MaxNodes }
    \cup { TextMsg("hello") }

InitResolve ==
  /\ cache = NewCache
  /\ nextOid = 1
  /\ inserted = << >>
  /\ now = 0
  /\ enabled = TRUE
  /\ forwardToJid = ""
  /\ listening = FALSE
  /\ tasks = NoTasks
  /\ delivered = 0
  /\ wiring = "bot"
  /\ notifyText = "none"
  /\ \E g \in [1..MaxNodes -> GraphNodes] :
       last = [op |-> "resolving", graph |-> g, message |-> 1, depth |-> 0,
               ret |-> Null]

\* if (message.<wrapper>) return resolveContentNode(message.<wrapper>.message)
Descend ==
  /\ last.op = "resolving"
  /\ last.message # 0
  /\ "wrapper" \in DOMAIN last.graph[last.message]
  /\ last.depth < StackLimit
  /\ last' = [last EXCEPT !.message = last.graph[last.message].message,
                          !.depth = @ + 1]
  /\ UNCHANGED <<cache, now, nextOid, inserted>>
  /\ ConfigUnchanged

\* The same call with the stack full: the engine throws
Overflow ==
  /\ last.op = "resolving"
  /\ last.message # 0
  /\ "wrapper" \in DOMAIN last.graph[last.message]
  /\ last.depth = StackLimit
  /\ last' = [last EXCEPT !.op = "thrown"]
  /\ UNCHANGED <<cache, now, nextOid, inserted>>
  /\ ConfigUnchanged

\* if (!message) return { node: null, type: null }
ReturnNull ==
  /\ last.op = "resolving"
  /\ last.message = 0
  /\ last' = [last EXCEPT !.op = "returned", !.ret = Null]
  /\ UNCHANGED <<cache, now, nextOid, inserted>>
  /\ ConfigUnchanged

\* return { node: message, type }
ReturnNode ==
  /\ last.op = "resolving"
  /\ last.message # 0
  /\ "wrapper" \notin DOMAIN last.graph[last.message]
  /\ last' = [last EXCEPT !.op = "returned", !.ret = last.graph[last.message]]
  /\ UNCHANGED <<cache, now, nextOid, inserted>>
  /\ ConfigUnchanged

NextResolve ==
  \/ Descend
  \/ Overflow
  \/ ReturnNull
  \/ ReturnNode

SpecResolve == InitResolve /\ [][NextResolve]_vars

\* C25 (resolver termination and depth bound): resolveContentNode never
\* ends in an exception, and on an envelope with more than DepthBound
\* wrappers around its content it does not go through them but returns the
\* null node, which the caller takes as unsupported.
C25_BoundedUnwrap ==
  /\ last.op # "thrown"
  /\ (last.op = "returned" /\ last.depth > DepthBound) => IsNull(last.ret)

----------------------------------------------------------------------------
(* SpecClassify: extractText, detectMediaKind and the content handleRevoke *)
(* builds from them, applied to one content node.  The variable last holds *)
(* the node and, after the call, what was computed.                        *)

\* Content fields of a node: those detectMediaKind probes, and one it does
\* not know
ContentFields ==
  { "imageMessage", "videoMessage", "stickerMessage", "audioMessage",
    "documentMessage", "liveLocationMessage", "locationMessage", "contactMessage" }

\* A node with any of the content fields populated, or a text
ContentNodes ==
  { [f \in fs |-> [caption |-> ""]] : fs \in SUBSET ContentFields }
    \cup { TextMsg("hello"), ImageMsg("pic", "IMG") }

InitClassify ==
  /\ cache = NewCache
  /\ nextOid = 1
  /\ inserted = << >>
  /\ now = 0
  /\ enabled = TRUE
  /\ forwardToJid = ""
  /\ listening = FALSE
  /\ tasks = NoTasks
  /\ delivered = 0
  /\ wiring = "bot"
  /\ notifyText = "none"
  /\ \E m \in ContentNodes :
       last = [op |-> "input", message |-> m, kind |-> "", out |-> Null]

\* handleRevoke from the hit on: caption, kind, and the content it sends,
\* the text of the text path or the payload of the media path
Classify ==
  /\ last.op = "input"
  /\ LET caption == extractText(last.message)
         kind    == detectMediaKind(last.message)
     IN  last' = [last EXCEPT !.op = "classified", !.kind = kind,
                    !.out = IF kind = "" THEN TextContent("notice", caption)
                            ELSE buildOutgoingContent(kind, "bytes", caption)]
  /\ UNCHANGED <<cache, now, nextOid, inserted>>
  /\ ConfigUnchanged

SpecClassify == InitClassify /\ [][Classify]_vars

\* C26 (media-kind detection): detectMediaKind returns a kind only for a
\* node with exactly one media kind populated, and for a node that is no
\* text and has several kinds or none populated the recovery output says
\* that the content is unsupported, and does not say that the text is empty.
C26_ExactlyOneKind ==
  last.op = "classified" =>
    LET m     == last.message
        kinds == { k \in {"image", "video", "sticker", "audio", "document"} :
                     (k \o "Message") \in DOMAIN m }
                   \cup (IF "liveLocationMessage" \in DOMAIN m \/ "locationMessage" \in DOMAIN m
                         THEN {"location"} ELSE {})
    IN  /\ last.kind # "" => kinds = {last.kind}
        /\ ("conversation" \notin DOMAIN m /\ Cardinality(kinds) # 1) =>
             /\ "text" \in DOMAIN last.out
             /\ Contains(last.out.text, "unsupported")
             /\ ~Contains(last.out.text, "(no text content)")

\* C27 (expiry purge is record-scoped): a getByRevokedKey() that finds an
\* expired record and purges deletes no entry of a record that is not
\* expired, so that every such record is reachable after the lookup through
\* the loose and id-only keys it was reachable through before.
C27_PurgeSparesOthers ==
  [][ (IsGet /\ last'.expired) =>
        /\ KeepsLive(cache.strictMap, cache'.strictMap, now)
        /\ KeepsLive(cache.looseMap, cache'.looseMap, now)
        /\ KeepsLive(cache.idMap, cache'.idMap, now)
    ]_vars

\* C28 (index subset): whatever add, getByRevokedKey, cleanup, evictOldest
\* and clear calls were made, every record that looseMap or idMap refers to
\* is also in strictMap, and neither map has more entries than strictMap.
C28_IndexSubset ==
  /\ \A i \in 1..Len(cache.looseMap) : cache.looseMap[i].v \in Cached(cache)
  /\ \A i \in 1..Len(cache.idMap) : cache.idMap[i].v \in Cached(cache)
  /\ Len(cache.looseMap) <= Len(cache.strictMap)
  /\ Len(cache.idMap) <= Len(cache.strictMap)

\* An eviction removed the oldest record with its entries and left two
\* records, one of them in strictMap alone
C28_Witness ==
  /\ last.op = "evict"
  /\ last.before > TotalSize(cache)
  /\ Len(cache.strictMap) = 2
  /\ Len(cache.looseMap) = 1
  /\ Len(cache.idMap) = 1

\* C29 (read-your-insert): the record an add() inserts is in strictMap when
\* add() returns, whether or not the add() evicted, and a getByRevokedKey()
\* with the same identity made right after it, before the clock moves,
\* returns that record and changes nothing, also when an older record is
\* under the same loose or id-only key.
C29_ReadYourInsert ==
  [][ (IsGet /\ last.op = "add" /\ last'.key = last.key) =>
        /\ \E rec \in Cached(cache) : rec.oid = last.ret
        /\ last.at = now => (last'.ret = last.ret /\ cache' = cache)
    ]_vars

\* An add() that evicted, of an identity whose message id an older cached
\* record has too, was followed at once by a lookup that returned its record
C29_Witness ==
  /\ last.op = "get"
  /\ last.ret = nextOid - 1
  /\ last.before = TotalSize(cache)
  /\ ~Referenced(cache, 1)
  /\ last.key.id = "s"
  /\ \E rec \in Cached(cache) :
       rec.oid # last.ret /\ rec.container.key.id = "s"
  /\ \E rec \in Cached(cache) : rec.oid = last.ret /\ rec.at = now /\ now > 0

----------------------------------------------------------------------------
(* SpecCommands: the bot's messages.upsert handler on the anti-delete      *)
(* commands, driving the controller's flag and forward target.  The        *)
(* variable last holds the bot's owner variables, the socket's user id and *)
(* the message handled last with the reply it got.                         *)

\* normalizeNumber(input): String(input).replace(/[^0-9]/g, '')
normalizeNumber(input) ==
  LET RECURSIVE Digits(_)
      Digits(str) ==
        IF str = "" THEN ""
        ELSE (IF SubSeq(str, 1, 1) \in {"0", "1", "2", "3", "4", "5", "6", "7", "8", "9"}
              THEN SubSeq(str, 1, 1) ELSE "")
             \o Digits(SubSeq(str, 2, Len(str)))
  IN  Digits(input)

\* formatJid(number), the domain shortened to @s
formatJid(number) == normalizeNumber(number) \o "@s"

\* (text || '').trim().toLowerCase(), over the letters the inputs use
txtLower(text) ==
  LET solid == { i \in 1..Len(text) : SubSeq(text, i, i) # " " }
      first == CHOOSE i \in solid : \A j \in solid : i <= j
      final == CHOOSE i \in solid : \A j \in solid : j <= i
      lower(c) == CASE c = "A" -> "a" [] c = "O" -> "o" [] c = "N" -> "n"
                    [] c = "F" -> "f" [] OTHER -> c
      RECURSIVE Lowered(_)
      Lowered(str) ==
        IF str = "" THEN ""
        ELSE lower(SubSeq(str, 1, 1)) \o Lowered(SubSeq(str, 2, Len(str)))
  IN  IF solid = {} THEN "" ELSE Lowered(SubSeq(text, first, final))

\* The action of an anti-delete command text, "" for any other text;
\* for .antidelete ..., txtLower.split(/\s+/)[1] || 'status'
actionOf(txt) ==
  LET n      == Len(txt)
      spaces == { i \in 1..n : SubSeq(txt, i, i) = " " }
      starts == { i \in 2..n : i \notin spaces /\ (i - 1) \in spaces }
      a      == CHOOSE i \in starts : \A j \in starts : i <= j
      stops  == { i \in a..n : i \in spaces }
      b      == IF stops = {} THEN n
                ELSE (CHOOSE i \in stops : \A j \in stops : i <= j) - 1
  IN  IF txt = ".antion" THEN "on"
      ELSE IF txt = ".antioff" THEN "off"
      ELSE IF txt = ".antistatus" THEN "status"
      ELSE IF n >= 11 /\ SubSeq(txt, 1, 11) = ".antidelete"
      THEN (IF starts = {} THEN "status" ELSE SubSeq(txt, a, b))
      ELSE ""

\* startBot: the owner from OWNER_NUMBER, the controller attached with the
\* owner as forward target, the socket not yet open
InitCommands ==
  /\ cache = NewCache
  /\ nextOid = 1
  /\ inserted = << >>
  /\ now = 0
  /\ listening = TRUE
  /\ tasks = NoTasks
  /\ delivered = 0
  /\ wiring = "bot"
  /\ notifyText = "none"
  /\ enabled = TRUE
  /\ \E number \in {"", "+1"} :
       /\ last = [op |-> "start", ownerNumberNormalized |-> normalizeNumber(number),
                  ownerJid |-> IF normalizeNumber(number) # ""
                               THEN formatJid(normalizeNumber(number)) ELSE "",
                  user |-> "", from |-> "", participant |-> "", text |-> "",
                  reply |-> ""]
       /\ forwardToJid = last.ownerJid

\* connection.update with connection 'open': the socket has its user id, and
\* an owner not configured falls back to it
ConnectionOpen ==
  /\ last.user = ""
  /\ LET id    == "9:7@s"
         owner == normalizeNumber(id)
     IN  IF last.ownerNumberNormalized = ""
         THEN /\ last' = [last EXCEPT !.op = "open", !.user = id,
                                      !.ownerNumberNormalized = owner,
                                      !.ownerJid = formatJid(owner)]
              /\ forwardToJid' = formatJid(owner)
         ELSE /\ last' = [last EXCEPT !.op = "open", !.user = id]
              /\ UNCHANGED forwardToJid
  /\ UNCHANGED <<cache, now, nextOid, inserted, enabled, listening, tasks, delivered,
                 wiring, notifyText>>

\* The handler without the test of the chat the command came from
AntiCommand_AnyChat(from, participant, text) ==
  LET senderNumber == normalizeNumber(IF participant # "" THEN participant ELSE from)
      botNumberNow == normalizeNumber(last.user)
      isOwner  == \/ (last.ownerNumberNormalized # "" /\ senderNumber = last.ownerNumberNormalized)
                  \/ (botNumberNow # "" /\ senderNumber = botNumberNow)
      action   == actionOf(txtLower(text))
      seen     == [last EXCEPT !.op = "command", !.from = from,
                               !.participant = participant, !.text = text]
  IN  IF action = "" \/ ~isOwner
      THEN /\ last' = [seen EXCEPT !.reply = IF action = "" THEN "" ELSE "only-owner"]
           /\ UNCHANGED <<enabled, forwardToJid>>
      ELSE /\ forwardToJid' = last.ownerJid
           /\ enabled' = IF action = "on" THEN TRUE
                         ELSE IF action = "off" THEN FALSE ELSE enabled
           /\ last' = [seen EXCEPT !.reply = action]

\* messages.upsert with one message: the anti-delete command block, and
\* nothing for a text that is no anti-delete command
AntiCommand(from, participant, text) ==
  LET senderNumber == normalizeNumber(IF participant # "" THEN participant ELSE from)
      botNumberNow == normalizeNumber(last.user)
      isOwner  == \/ (last.ownerNumberNormalized # "" /\ senderNumber = last.ownerNumberNormalized)
                  \/ (botNumberNow # "" /\ senderNumber = botNumberNow)
      action   == actionOf(txtLower(text))
      ownerJid == IF last.ownerJid # "" THEN last.ownerJid
                  ELSE IF last.ownerNumberNormalized # ""
                  THEN formatJid(last.ownerNumberNormalized)
                  ELSE IF botNumberNow # "" THEN formatJid(botNumberNow) ELSE ""
      seen     == [last EXCEPT !.op = "command", !.from = from,
                               !.participant = participant, !.text = text]
  IN  IF action = ""
      THEN last' = [seen EXCEPT !.reply = ""] /\ UNCHANGED <<enabled, forwardToJid>>
      ELSE IF ~isOwner
      THEN /\ last' = [seen EXCEPT !.reply = "only-owner"]
           /\ UNCHANGED <<enabled, forwardToJid>>
      ELSE IF ownerJid = "" \/ from # ownerJid
      THEN /\ last' = [seen EXCEPT !.ownerJid = ownerJid, !.reply = "use-private-chat"]
           /\ UNCHANGED <<enabled, forwardToJid>>
      ELSE /\ forwardToJid' = ownerJid
           /\ enabled' = IF action = "on" THEN TRUE
                         ELSE IF action = "off" THEN FALSE ELSE enabled
           /\ last' = [seen EXCEPT !.ownerJid = ownerJid,
                         !.reply = IF action = "on" THEN "enabled"
                                   ELSE IF action = "off" THEN "disabled"
                                   ELSE IF enabled THEN "status: ENABLED"
                                   ELSE "status: DISABLED"]

\* A message arrives; one of a private chat has no participant, one of the
\* group has
Command ==
  \E from \in {"1@s", "2@s", "120@g"} :
    \E participant \in (IF from = "120@g" THEN {"1@s", "2@s", "9@s"} ELSE {""}) :
      \E text \in {".antion", ".antioff", ".antistatus", ".antidelete",
                   ".antidelete on", ".antidelete off", ".antidelete  x",
                   " .AntiOn ", "hello"} :
        /\ AntiCommand(from, participant, text)
        /\ UNCHANGED <<cache, now, nextOid, inserted, listening, tasks,
                       delivered, wiring, notifyText>>

NextCommands ==
  \/ ConnectionOpen
  \/ Command

SpecCommands == InitCommands /\ [][NextCommands]_vars

\* C30 (owner-only control): a command sent by someone who is not the owner,
\* or in a chat that is not the owner's private chat with the bot, leaves
\* the enabled flag and the forward target as they were; the flag changes
\* only by the owner's 'on' (to enabled) and 'off' (to disabled) sent in
\* that chat, and a 'status' command leaves it unchanged.
C30_OwnerOnly ==
  [][ last'.op = "command" =>
        LET sender == IF last'.participant # "" THEN last'.participant ELSE last'.from
            ons    == {".antion", ".antidelete on", " .AntiOn "}
            offs   == {".antioff", ".antidelete off"}
        IN  /\ (sender \notin {"1@s", "9@s"} \/ last'.from # last'.ownerJid) =>
                 (enabled' = enabled /\ forwardToJid' = forwardToJid)
            /\ enabled' # enabled =>
                 /\ sender = "1@s" /\ last'.from = "1@s"
                 /\ (enabled' /\ last'.text \in ons) \/ (~enabled' /\ last'.text \in offs)
            /\ last'.text \notin (ons \cup offs) => enabled' = enabled
    ]_vars

\* After the owner had switched the feature off in the private chat, a
\* member of the group sent .antion and was refused
C30_Witness ==
  /\ last.op = "command"
  /\ last.from = "120@g"
  /\ last.participant = "2@s"
  /\ last.text = ".antion"
  /\ last.reply = "only-owner"
  /\ ~enabled
  /\ forwardToJid = "1@s"

====
